---- MODULE Spec2Model ----
(***************************************************************************)
(* A model of the custom widgets of cigvis/gui/custom_widgets.py:          *)
(*   RectP             the two-corner rectangle accumulator                *)
(*   MyQSpinBox        the spin box with keyboard stepping                 *)
(*   ToggleButton      the checkable push button of an exclusive group     *)
(*   RadioButtonPanel  the panel of UnpickRadioButtons                     *)
(* Each widget has its own specification (SpecRect, SpecSpin, SpecToggle,  *)
(* SpecRadio); the variables of the other widgets stay at their idle value.*)
(*                                                                         *)
(* Python values: None is the empty tuple <<>> and the number n is the     *)
(* one-element tuple <<n>>, so that a coordinate that was never set can be *)
(* stored beside one that was.  A call either returns a value or raises.   *)
(***************************************************************************)
EXTENDS Integers, Sequences, FiniteSets, TLC

VARIABLES
    rect,      \* RectP: [x0, y0, x1, y1], the four attributes
    rcall,     \* RectP: the most recent call and what it returned or raised
    lastP0,    \* RectP: the first corner most recently given (history)
    lastP1,    \* RectP: the second corner most recently given (history)
    spin,      \* MyQSpinBox: [value, minimum, maximum]
    emitted,   \* MyQSpinBox: payloads of 'changed' emitted by the last event
    sevent,    \* MyQSpinBox: the last event delivered
    btn,       \* ToggleButton: per button [checked, exclu, usesfix, hasParent, title, text]
    tcalls,    \* ToggleButton: updateToggleState calls made during the last event
    tevent,    \* ToggleButton: the last event delivered
    radio,     \* RadioButtonPanel: [names, checked, selected]
    rlog,      \* RadioButtonPanel: toggled notifications handled during the last event
    revent     \* RadioButtonPanel: the last event delivered

rectVars   == <<rect, rcall, lastP0, lastP1>>
spinVars   == <<spin, emitted, sevent>>
toggleVars == <<btn, tcalls, tevent>>
radioVars  == <<radio, rlog, revent>>
vars       == <<rect, rcall, lastP0, lastP1, spin, emitted, sevent,
                btn, tcalls, tevent, radio, rlog, revent>>

\* ---------------------------------------------------------------- bounds
MaxCoord == 1        \* coordinates range over -MaxCoord..MaxCoord
MaxSpin == 2         \* spin box limits range over -MaxSpin..MaxSpin
NumButtons == 3      \* toggle buttons under test
MaxNames == 3        \* longest list of radio button names

\* ---------------------------------------------------------- Python values
None == <<>>
Some(n) == <<n>>
IsNone(v) == v = None
Val(v) == v[1]
Return(v) == [kind |-> "return", val |-> v]
Raise(e) == [kind |-> "raise", val |-> e]
Abs(n) == IF n < 0 THEN -n ELSE n
Min(a, b) == IF a <= b THEN a ELSE b
Max(a, b) == IF a >= b THEN a ELSE b

Idle == [op |-> "idle"]

\* =================================================================== RectP
\* Coordinates are the integers of a small range: every operation of RectP
\* is a copy, a subtraction or abs(), which act on these as on any finite
\* float.
Coord == {Some(n) : n \in (-MaxCoord)..MaxCoord}
OptCoord == Coord \cup {None}
\* a positional event object: anything exposing xdata and ydata (None when
\* the pointer is outside the axes)
Event == [xdata : OptCoord, ydata : OptCoord]

\* RectP.__init__
RectP(x0, y0, x1, y1) == [x0 |-> x0, y0 |-> y0, x1 |-> x1, y1 |-> y1]

\* RectP.from_points
from_points(p0, p1) == RectP(p0[1], p0[2], p1[1], p1[2])

\* RectP.from_events
from_events(e0, e1) == RectP(e0.xdata, e0.ydata, e1.xdata, e1.ydata)

\* RectP.add_p0 with the first corner written over the second one
add_p0_swapped(r, x0, y0) == [r EXCEPT !.x1 = x0, !.y1 = y0]

\* RectP.add_p0
add_p0(r, x0, y0) == [r EXCEPT !.x0 = x0, !.y0 = y0]

\* RectP.add_p1
add_p1(r, x1, y1) == [r EXCEPT !.x1 = x1, !.y1 = y1]

\* RectP.add_p0event
add_p0event(r, event) == [r EXCEPT !.x0 = event.xdata, !.y0 = event.ydata]

\* RectP.add_p1event
add_p1event(r, event) == [r EXCEPT !.x1 = event.xdata, !.y1 = event.ydata]

\* float - float, which raises TypeError when an operand is None
AllSet(r) == ~IsNone(r.x0) /\ ~IsNone(r.y0) /\ ~IsNone(r.x1) /\ ~IsNone(r.y1)

\* RectP.to_start_size without abs()
to_start_size_signed(r) ==
    IF IsNone(r.x1) \/ IsNone(r.x0) \/ IsNone(r.y1) \/ IsNone(r.y0)
    THEN Raise("TypeError")
    ELSE Return(<<r.x0, r.y0, Some(Val(r.x1) - Val(r.x0)),
                  Some(Val(r.y1) - Val(r.y0))>>)

\* RectP.to_start_size
to_start_size(r) ==
    IF IsNone(r.x1) \/ IsNone(r.x0) \/ IsNone(r.y1) \/ IsNone(r.y0)
    THEN Raise("TypeError")
    ELSE LET width == Abs(Val(r.x1) - Val(r.x0))
             height == Abs(Val(r.y1) - Val(r.y0))
         IN Return(<<r.x0, r.y0, Some(width), Some(height)>>)

\* RectP.to_points
to_points(r) == Return(<<r.x0, r.y0, r.x1, r.y1>>)

RectInit ==
    /\ \/ \E x0 \in OptCoord, y0 \in OptCoord, x1 \in OptCoord, y1 \in OptCoord :
            rect = RectP(x0, y0, x1, y1)
       \/ \E p0 \in Coord \X Coord, p1 \in Coord \X Coord :
            rect = from_points(p0, p1)
       \/ \E e0 \in Event, e1 \in Event : rect = from_events(e0, e1)
    /\ rcall = [op |-> "__init__", out |-> Return(None)]
    /\ lastP0 = <<rect.x0, rect.y0>>
    /\ lastP1 = <<rect.x1, rect.y1>>

AddP0 ==
    \E x \in OptCoord, y \in OptCoord :
        /\ rect' = add_p0(rect, x, y)
        /\ rcall' = [op |-> "add_p0", out |-> Return(None)]
        /\ lastP0' = <<x, y>>
        /\ UNCHANGED <<lastP1, spinVars, toggleVars, radioVars>>

AddP1 ==
    \E x \in OptCoord, y \in OptCoord :
        /\ rect' = add_p1(rect, x, y)
        /\ rcall' = [op |-> "add_p1", out |-> Return(None)]
        /\ lastP1' = <<x, y>>
        /\ UNCHANGED <<lastP0, spinVars, toggleVars, radioVars>>

AddP0Event ==
    \E e \in Event :
        /\ rect' = add_p0event(rect, e)
        /\ rcall' = [op |-> "add_p0event", out |-> Return(None)]
        /\ lastP0' = <<e.xdata, e.ydata>>
        /\ UNCHANGED <<lastP1, spinVars, toggleVars, radioVars>>

AddP1Event ==
    \E e \in Event :
        /\ rect' = add_p1event(rect, e)
        /\ rcall' = [op |-> "add_p1event", out |-> Return(None)]
        /\ lastP1' = <<e.xdata, e.ydata>>
        /\ UNCHANGED <<lastP0, spinVars, toggleVars, radioVars>>

ToStartSize ==
    /\ rcall' = [op |-> "to_start_size", out |-> to_start_size(rect)]
    /\ UNCHANGED <<rect, lastP0, lastP1, spinVars, toggleVars, radioVars>>

ToPoints ==
    /\ rcall' = [op |-> "to_points", out |-> to_points(rect)]
    /\ UNCHANGED <<rect, lastP0, lastP1, spinVars, toggleVars, radioVars>>

RectNext ==
    \/ AddP0
    \/ AddP1
    \/ AddP0Event
    \/ AddP1Event
    \/ ToStartSize
    \/ ToPoints

RectIdle == <<RectP(None, None, None, None), Idle, <<None, None>>, <<None, None>>>>

\* ============================================================== MyQSpinBox
\* The source sets neither singleStep nor wrapping, so the toolkit's defaults
\* apply: a step is one unit and the range does not wrap.
Keys == {"Key_Return", "Key_Up", "Key_Down", "Key_PageUp", "Key_PageDown"}
Steps == {-2, -1, 1, 2}
SpinRange == (-MaxSpin)..MaxSpin

\* QSpinBox.setValue, reached from keyPressEvent: the value is bounded by
\* the range
setValue(w, v) == [w EXCEPT !.value = Max(w.minimum, Min(w.maximum, v))]

\* QSpinBox.stepBy, reached through super().stepBy(steps)
super_stepBy(w, steps) == setValue(w, w.value + steps)

\* MyQSpinBox.stepBy
stepBy(w, steps) ==
    LET w1 == super_stepBy(w, steps)
    IN [w |-> w1, out |-> <<w1.value>>]

\* QAbstractSpinBox.keyPressEvent, reached through super().keyPressEvent:
\* page keys step by ten through the virtual stepBy when that direction is
\* enabled
super_keyPressEvent(w, key) ==
    CASE key = "Key_PageUp" ->
            IF w.value < w.maximum THEN stepBy(w, 10) ELSE [w |-> w, out |-> <<>>]
      [] key = "Key_PageDown" ->
            IF w.value > w.minimum THEN stepBy(w, -10) ELSE [w |-> w, out |-> <<>>]
      [] OTHER -> [w |-> w, out |-> <<>>]

\* MyQSpinBox.keyPressEvent emitting the value read before the step
keyPressEvent_stale(w, key) ==
    CASE key = "Key_Return" -> [w |-> w, out |-> <<w.value>>]
      [] key = "Key_Up" ->
            IF w.value >= w.maximum THEN [w |-> w, out |-> <<>>]
            ELSE [w |-> setValue(w, w.value + 1), out |-> <<w.value>>]
      [] key = "Key_Down" ->
            IF w.value <= w.minimum THEN [w |-> w, out |-> <<>>]
            ELSE [w |-> setValue(w, w.value - 1), out |-> <<w.value>>]
      [] OTHER -> super_keyPressEvent(w, key)

\* MyQSpinBox.keyPressEvent without the early returns at the limits
keyPressEvent_unguarded(w, key) ==
    CASE key = "Key_Return" -> [w |-> w, out |-> <<w.value>>]
      [] key = "Key_Up" ->
            LET value == w.value + 1
            IN [w |-> setValue(w, value), out |-> <<value>>]
      [] key = "Key_Down" ->
            LET value == w.value - 1
            IN [w |-> setValue(w, value), out |-> <<value>>]
      [] OTHER -> super_keyPressEvent(w, key)

\* MyQSpinBox.keyPressEvent
keyPressEvent(w, key) ==
    CASE key = "Key_Return" -> [w |-> w, out |-> <<w.value>>]
      [] key = "Key_Up" ->
            IF w.value >= w.maximum THEN [w |-> w, out |-> <<>>]
            ELSE LET value == w.value + 1
                 IN [w |-> setValue(w, value), out |-> <<value>>]
      [] key = "Key_Down" ->
            IF w.value <= w.minimum THEN [w |-> w, out |-> <<>>]
            ELSE LET value == w.value - 1
                 IN [w |-> setValue(w, value), out |-> <<value>>]
      [] OTHER -> super_keyPressEvent(w, key)

SpinInit ==
    /\ \E lo \in SpinRange, hi \in SpinRange, v \in SpinRange :
        /\ lo <= v /\ v <= hi
        /\ spin = [value |-> v, minimum |-> lo, maximum |-> hi]
    /\ emitted = <<>>
    /\ sevent = [op |-> "__init__", arg |-> None, before |-> spin.value]

KeyPress ==
    \E key \in Keys :
        LET r == keyPressEvent(spin, key)
        IN /\ spin' = r.w
           /\ emitted' = r.out
           /\ sevent' = [op |-> "keyPressEvent", arg |-> key, before |-> spin.value]
           /\ UNCHANGED <<rectVars, toggleVars, radioVars>>

StepBy ==
    \E steps \in Steps :
        LET r == stepBy(spin, steps)
        IN /\ spin' = r.w
           /\ emitted' = r.out
           /\ sevent' = [op |-> "stepBy", arg |-> Some(steps), before |-> spin.value]
           /\ UNCHANGED <<rectVars, toggleVars, radioVars>>

SpinNext ==
    \/ KeyPress
    \/ StepBy

SpinIdle == <<[value |-> 0, minimum |-> 0, maximum |-> 0], <<>>, Idle>>

\* ============================================================ ToggleButton
\* A handler works on st = [b |-> the buttons, calls |-> the calls of the
\* parent's updateToggleState made so far in this event].
RECURSIVE setChecked(_, _, _), onToggle(_, _, _), updateToggleState(_, _, _),
          uncheckOthers(_, _, _)

Buttons == 1..NumButtons
TitleText == "Pick"

\* ToggleButton.__init__: the button starts unchecked and shows its title
ToggleButton(title, usesfix, exclu, hasParent) ==
    LET t == IF usesfix THEN title \o " OFF" ELSE title
    IN [checked |-> FALSE, exclu |-> exclu, usesfix |-> usesfix,
        hasParent |-> hasParent, title |-> t, text |-> t]

\* the buttons the parent coordinates: its exclusive children
InGroup(b, i) == b[i].exclu /\ b[i].hasParent

\* the parent's loop over its buttons: every one but the sender is set off
uncheckOthers(st, sender, j) ==
    IF j > NumButtons THEN st
    ELSE IF j # sender /\ InGroup(st.b, j)
         THEN uncheckOthers(setChecked(st, j, FALSE), sender, j + 1)
         ELSE uncheckOthers(st, sender, j + 1)

\* parent.updateToggleState(button, checked): on a button's activation the
\* observer deactivates all its siblings
updateToggleState(st, sender, checked) ==
    IF checked THEN uncheckOthers(st, sender, 1) ELSE st

\* ToggleButton.onToggle that never notifies the parent
onToggle_silent(st, i, checked) ==
    IF ~st.b[i].usesfix THEN st
    ELSE IF checked
         THEN [st EXCEPT !.b[i].text = st.b[i].title \o " ON"]
         ELSE [st EXCEPT !.b[i].text = st.b[i].title \o " OFF"]

\* ToggleButton.onToggle that notifies the parent whatever exclu says
onToggle_always(st, i, checked) ==
    LET s1 == IF st.b[i].hasParent
              THEN updateToggleState(
                       [st EXCEPT !.calls = Append(@, <<i, checked>>)],
                       i, checked)
              ELSE st
    IN IF ~s1.b[i].usesfix THEN s1
       ELSE IF checked
            THEN [s1 EXCEPT !.b[i].text = s1.b[i].title \o " ON"]
            ELSE [s1 EXCEPT !.b[i].text = s1.b[i].title \o " OFF"]

\* ToggleButton.onToggle
onToggle(st, i, checked) ==
    LET s1 == IF st.b[i].exclu /\ st.b[i].hasParent
              THEN updateToggleState(
                       [st EXCEPT !.calls = Append(@, <<i, checked>>)],
                       i, checked)
              ELSE st
    IN IF ~s1.b[i].usesfix THEN s1
       ELSE IF checked
            THEN [s1 EXCEPT !.b[i].text = s1.b[i].title \o " ON"]
            ELSE [s1 EXCEPT !.b[i].text = s1.b[i].title \o " OFF"]

\* QPushButton.setChecked of a checkable button: a change of state raises
\* toggled(checked), which is connected to onToggle
setChecked(st, i, checked) ==
    IF st.b[i].checked = checked THEN st
    ELSE onToggle([st EXCEPT !.b[i].checked = checked], i, checked)

ToggleInit ==
    /\ \E usesfix \in [Buttons -> BOOLEAN], exclu \in [Buttons -> BOOLEAN],
          hasParent \in [Buttons -> BOOLEAN] :
            btn = [i \in Buttons |->
                     ToggleButton(TitleText, usesfix[i], exclu[i], hasParent[i])]
    /\ tcalls = <<>>
    /\ tevent = [button |-> 0, checked |-> FALSE]

\* a click (checked is the opposite of the state) or a programmatic
\* setChecked
Toggle ==
    \E i \in Buttons, checked \in BOOLEAN :
        LET st == setChecked([b |-> btn, calls |-> <<>>], i, checked)
        IN /\ btn' = st.b
           /\ tcalls' = st.calls
           /\ tevent' = [button |-> i, checked |-> checked]
           /\ UNCHANGED <<rectVars, spinVars, radioVars>>

ToggleNext == Toggle

ToggleIdle == <<<<>>, <<>>, [button |-> 0, checked |-> FALSE]>>

\* ======================================================== RadioButtonPanel
\* A handler works on p = [names, checked, selected, log]; log lists the
\* toggled notifications handled so far in this event.
RECURSIVE rSetChecked(_, _, _), onRadioButtonChanged(_, _), uncheckRest(_, _, _)

NameSet == {"A", "B", "C"}
NamesLists == UNION {[1..n -> NameSet] : n \in 1..MaxNames}

\* QAbstractButtonPrivate.queryCheckedButton of an auto-exclusive button:
\* the checked sibling, else the button itself when checked, else none (0);
\* a button without siblings forms no group
queryCheckedButton(p, i) ==
    IF Len(p.checked) = 1 THEN 0
    ELSE LET others == {j \in 1..Len(p.checked) : j # i /\ p.checked[j]}
         IN IF others # {} THEN CHOOSE j \in others : \A k \in others : j <= k
            ELSE IF p.checked[i] THEN i ELSE 0

\* the loop of onRadioButtonChanged over self.radioButtons
uncheckRest(p, sender, j) ==
    IF j > Len(p.checked) THEN p
    ELSE IF j # sender
         THEN uncheckRest(rSetChecked(p, j, FALSE), sender, j + 1)
         ELSE uncheckRest(p, sender, j + 1)

\* RadioButtonPanel.onRadioButtonChanged without the isChecked() test
onRadioButtonChanged_unguarded(p, sender) ==
    uncheckRest(
        [p EXCEPT !.selected = p.names[sender],
                  !.log = Append(@, [sender |-> sender,
                                     checked |-> p.checked[sender],
                                     wrote |-> TRUE])],
        sender, 1)

\* RadioButtonPanel.onRadioButtonChanged; the sender is the button whose
\* toggled signal is being delivered
onRadioButtonChanged(p, sender) ==
    IF p.checked[sender]
    THEN uncheckRest(
             [p EXCEPT !.selected = p.names[sender],
                       !.log = Append(@, [sender |-> sender, checked |-> TRUE,
                                          wrote |-> TRUE])],
             sender, 1)
    ELSE [p EXCEPT !.log = Append(@, [sender |-> sender, checked |-> FALSE,
                                      wrote |-> FALSE])]

\* QRadioButton.setChecked: radio buttons of one parent are auto-exclusive.
\* The checked button of the group cannot be unchecked; checking a button
\* unchecks the previously checked one first; then toggled is raised
rSetChecked(p, i, checked) ==
    IF p.checked[i] = checked THEN p
    ELSE IF ~checked /\ queryCheckedButton(p, i) = i THEN p
    ELSE LET p1 == [p EXCEPT !.checked[i] = checked]
             prev == queryCheckedButton(p1, i)
             p2 == IF checked /\ prev # 0 THEN rSetChecked(p1, prev, FALSE)
                   ELSE p1
         IN onRadioButtonChanged(p2, i)

\* RadioButtonPanel.__init__; selected does not exist ("") until it is set
RadioButtonPanel(names) ==
    LET p0 == [names |-> names, checked |-> [i \in 1..Len(names) |-> FALSE],
               selected |-> "", log |-> <<>>]
        p1 == rSetChecked(p0, 1, TRUE)
    IN [p1 EXCEPT !.selected = names[1]]

\* RadioButtonPanel.getCurrentSelection
getCurrentSelection(p) == p.selected

RadioInit ==
    /\ \E names \in NamesLists :
        LET p == RadioButtonPanel(names)
        IN /\ radio = [names |-> p.names, checked |-> p.checked,
                       selected |-> p.selected]
           /\ rlog = p.log
    /\ revent = [op |-> "__init__", button |-> 1]

\* a selection: setChecked(True) on one of the panel's buttons
Select ==
    \E i \in 1..Len(radio.names) :
        LET p == rSetChecked([names |-> radio.names, checked |-> radio.checked,
                              selected |-> radio.selected, log |-> <<>>],
                             i, TRUE)
        IN /\ radio' = [names |-> p.names, checked |-> p.checked,
                        selected |-> p.selected]
           /\ rlog' = p.log
           /\ revent' = [op |-> "setChecked", button |-> i]
           /\ UNCHANGED <<rectVars, spinVars, toggleVars>>

RadioNext == Select

RadioIdle == <<[names |-> <<>>, checked |-> <<>>, selected |-> ""], <<>>,
               [op |-> "idle", button |-> 0]>>

\* ========================================================= specifications
\* the widgets that a specification does not exercise
IdleBut(w) ==
    /\ w = "rect" \/
         (rect = RectIdle[1] /\ rcall = RectIdle[2] /\ lastP0 = RectIdle[3]
          /\ lastP1 = RectIdle[4])
    /\ w = "spin" \/
         (spin = SpinIdle[1] /\ emitted = SpinIdle[2] /\ sevent = SpinIdle[3])
    /\ w = "toggle" \/
         (btn = ToggleIdle[1] /\ tcalls = ToggleIdle[2] /\ tevent = ToggleIdle[3])
    /\ w = "radio" \/
         (radio = RadioIdle[1] /\ rlog = RadioIdle[2] /\ revent = RadioIdle[3])

InitRect == RectInit /\ IdleBut("rect")
InitSpin == SpinInit /\ IdleBut("spin")
InitToggle == ToggleInit /\ IdleBut("toggle")
InitRadio == RadioInit /\ IdleBut("radio")

SpecRect == InitRect /\ [][RectNext]_vars
SpecSpin == InitSpin /\ [][SpinNext]_vars
SpecToggle == InitToggle /\ [][ToggleNext]_vars
SpecRadio == InitRadio /\ [][RadioNext]_vars

\* ================================================================== claims
\* ------------------------------------------------------------------ RectP
\* C3 as stated: for every sequence of corner assignments from any
\* constructor arguments, to_start_size() returns width = |x1 - x0| and
\* height = |y1 - y0| of the stored corners, both non-negative.
C3_AlwaysAbsDiff ==
    rcall.op = "to_start_size" =>
        /\ rcall.out.kind = "return"
        /\ rcall.out.val[3] = Some(Abs(Val(rect.x1) - Val(rect.x0)))
        /\ rcall.out.val[4] = Some(Abs(Val(rect.y1) - Val(rect.y0)))
        /\ Val(rcall.out.val[3]) >= 0
        /\ Val(rcall.out.val[4]) >= 0

\* C3 amended: when all four stored coordinates are numbers, to_start_size()
\* returns [x0, y0, |x1 - x0|, |y1 - y0|] with both sizes non-negative; when
\* a coordinate is still None it raises TypeError and returns nothing.
C3_AbsDiffWhenSet ==
    rcall.op = "to_start_size" =>
        IF AllSet(rect)
        THEN /\ rcall.out.kind = "return"
             /\ rcall.out.val[1] = rect.x0
             /\ rcall.out.val[2] = rect.y0
             /\ rcall.out.val[3] = Some(Abs(Val(rect.x1) - Val(rect.x0)))
             /\ rcall.out.val[4] = Some(Abs(Val(rect.y1) - Val(rect.y0)))
             /\ Val(rcall.out.val[3]) >= 0
             /\ Val(rcall.out.val[4]) >= 0
        ELSE rcall.out = Raise("TypeError")

\* C3 witness: to_start_size was called on corners given in reverse order,
\* where the absolute value matters.
C3_Witness ==
    /\ rcall.op = "to_start_size"
    /\ AllSet(rect)
    /\ Val(rect.x1) < Val(rect.x0)
    /\ Val(rect.y1) < Val(rect.y0)
    /\ rcall.out.kind = "return"
    /\ Val(rcall.out.val[3]) > 0

\* C8: to_points() returns exactly the most recently assigned first and
\* second corner (the constructor's when never assigned); assigning one
\* corner leaves the other alone; the event forms act as the coordinate
\* forms; nothing is reordered or rejected.
C8_CornersIndependent ==
    /\ <<rect.x0, rect.y0>> = lastP0
    /\ <<rect.x1, rect.y1>> = lastP1
    /\ rcall.op = "to_points" =>
           rcall.out = Return(<<lastP0[1], lastP0[2], lastP1[1], lastP1[2]>>)
    /\ \A e \in Event :
        /\ add_p0event(rect, e) = add_p0(rect, e.xdata, e.ydata)
        /\ add_p1event(rect, e) = add_p1(rect, e.xdata, e.ydata)

\* C8 witness: to_points was called on stored corners with x1 < x0 and
\* y1 <= y0, and returned them as they are.
C8_Witness ==
    /\ rcall.op = "to_points"
    /\ AllSet(rect)
    /\ Val(rect.x1) < Val(rect.x0)
    /\ Val(rect.y1) <= Val(rect.y0)
    /\ rcall.out.val = <<rect.x0, rect.y0, rect.x1, rect.y1>>

\* C9 as stated: for stored corners, [x, x + w] of to_start_size() equals
\* [min(x0, x1), max(x0, x1)], and likewise vertically, whichever order the
\* corners were given in.
C9_SameRectangle ==
    (rcall.op = "to_start_size" /\ AllSet(rect)) =>
        /\ rcall.out.kind = "return"
        /\ LET x == Val(rcall.out.val[1])
               y == Val(rcall.out.val[2])
               w == Val(rcall.out.val[3])
               h == Val(rcall.out.val[4])
           IN /\ x = Min(Val(rect.x0), Val(rect.x1))
              /\ x + w = Max(Val(rect.x0), Val(rect.x1))
              /\ y = Min(Val(rect.y0), Val(rect.y1))
              /\ y + h = Max(Val(rect.y0), Val(rect.y1))

\* -------------------------------------------------------------- MyQSpinBox
\* C4 as stated: from every value of the range, the limits included, an Up
\* (Down) key press gives the value and the 'changed' notifications that
\* stepBy(+1) (stepBy(-1)) gives.
C4_KeySameAsStepBy ==
    [][/\ (sevent'.op = "keyPressEvent" /\ sevent'.arg = "Key_Up") =>
            (spin' = stepBy(spin, 1).w /\ emitted' = stepBy(spin, 1).out)
       /\ (sevent'.op = "keyPressEvent" /\ sevent'.arg = "Key_Down") =>
            (spin' = stepBy(spin, -1).w /\ emitted' = stepBy(spin, -1).out)]_vars

\* C5: Enter emits exactly one 'changed' carrying the current value and
\* leaves the value alone; every 'changed' of Enter, Up, Down and stepBy
\* carries the value the widget holds when it is emitted.
C5_EmitsCurrentValue ==
    /\ \A k \in DOMAIN emitted : emitted[k] = spin.value
    /\ (sevent.op = "keyPressEvent" /\ sevent.arg = "Key_Return") =>
           (emitted = <<spin.value>> /\ spin.value = sevent.before)
    /\ (sevent.op = "stepBy") => Len(emitted) = 1

\* C5 witness: an arrow key moved the value and emitted it.
C5_Witness ==
    /\ sevent.op = "keyPressEvent"
    /\ sevent.arg = "Key_Up"
    /\ spin.value = sevent.before + 1
    /\ emitted = <<spin.value>>

\* C7: an Up key at or above the maximum, or a Down key at or below the
\* minimum, changes nothing and emits nothing; the value never leaves
\* [minimum, maximum].
C7_OutOfRangeIgnored ==
    /\ spin.minimum <= spin.value
    /\ spin.value <= spin.maximum
    /\ (sevent.op = "keyPressEvent" /\ sevent.arg = "Key_Up"
            /\ sevent.before >= spin.maximum) =>
           (spin.value = sevent.before /\ emitted = <<>>)
    /\ (sevent.op = "keyPressEvent" /\ sevent.arg = "Key_Down"
            /\ sevent.before <= spin.minimum) =>
           (spin.value = sevent.before /\ emitted = <<>>)

\* C7 witness: Up was pressed at the maximum of a range with more than one
\* value.
C7_Witness ==
    /\ sevent.op = "keyPressEvent"
    /\ sevent.arg = "Key_Up"
    /\ sevent.before = spin.maximum
    /\ spin.minimum < spin.maximum
    /\ emitted = <<>>

\* ------------------------------------------------------------ ToggleButton
\* C1: among the exclusive buttons of one parent at most one is on; when
\* one of them has just been set on, it is on and every other one is off;
\* the first call of updateToggleState in an event is the toggled button's.
C1_AtMostOneOn ==
    /\ Cardinality({i \in Buttons : InGroup(btn, i) /\ btn[i].checked}) <= 1
    /\ (tevent.button # 0 /\ InGroup(btn, tevent.button) /\ tevent.checked) =>
           /\ btn[tevent.button].checked
           /\ \A j \in Buttons :
                (j # tevent.button /\ InGroup(btn, j)) => ~btn[j].checked
    /\ tcalls # <<>> =>
           /\ InGroup(btn, tevent.button)
           /\ tcalls[1] = <<tevent.button, tevent.checked>>

\* C1 witness: a button of the group was set on while a sibling was on, and
\* the sibling was switched off.
C1_Witness ==
    /\ tevent.button # 0
    /\ tevent.checked
    /\ InGroup(btn, tevent.button)
    /\ btn[tevent.button].checked
    /\ \E k \in DOMAIN tcalls :
           tcalls[k][1] # tevent.button /\ tcalls[k][2] = FALSE

\* C6: toggling a button built with exclu=False never calls the parent's
\* updateToggleState and leaves every other button as it was.
C6_NonExclusiveAlone ==
    [][(tevent'.button # 0 /\ ~btn[tevent'.button].exclu) =>
           /\ tcalls' = <<>>
           /\ \A j \in Buttons : j # tevent'.button => btn'[j] = btn[j]]_vars

\* C6 witness: a non-exclusive child of the parent was set on while an
\* exclusive sibling was on, and both are on.
C6_Witness ==
    /\ tevent.button # 0
    /\ tevent.checked
    /\ ~btn[tevent.button].exclu
    /\ btn[tevent.button].hasParent
    /\ btn[tevent.button].checked
    /\ \E j \in Buttons : InGroup(btn, j) /\ btn[j].checked

\* C10 as stated: with usesfix the text is the title plus " OFF" when
\* unchecked and plus " ON" when checked, one suffix only; without usesfix
\* toggling never changes the text.
C10_OneSuffix ==
    \A i \in Buttons :
        IF btn[i].usesfix
        THEN btn[i].text = TitleText \o (IF btn[i].checked THEN " ON" ELSE " OFF")
        ELSE btn[i].text = TitleText

\* -------------------------------------------------------- RadioButtonPanel
\* C2: after construction the first name is selected and only the first
\* button is checked; after a selection getCurrentSelection() is the text
\* of the button selected last, that button is checked and no other is;
\* the notifications raised while siblings are unchecked write nothing.
C2_SelectionFollows ==
    /\ revent.op = "__init__" => revent.button = 1
    /\ getCurrentSelection(radio) = radio.names[revent.button]
    /\ \A j \in 1..Len(radio.names) : radio.checked[j] <=> (j = revent.button)
    /\ \A k \in DOMAIN rlog : rlog[k].wrote => rlog[k].sender = revent.button

\* C2 witness: on a panel named A, B, C the third button was selected,
\* which unchecked a sibling on the way.
C2_Witness ==
    /\ radio.names = <<"A", "B", "C">>
    /\ revent.op = "setChecked"
    /\ revent.button = 3
    /\ getCurrentSelection(radio) = "C"
    /\ \E k \in DOMAIN rlog : ~rlog[k].checked
====
